---------------------------- MODULE Spec2Model ----------------------------
(***************************************************************************)
(* Model of prophet-model (src/prophet-model/src/lib.rs): the conversion   *)
(* of extracted records into Entity / Microservice values and the build    *)
(* of the Microservice Graph by MicroserviceGraph::try_new.                *)
(*                                                                         *)
(* A record (BTreeMap<String, Value>) is a function whose domain is the    *)
(* set of keys it holds.  A field whose extraction fails is a key that is  *)
(* not in the domain.  A graph is its node sequence (NodeIndex = position) *)
(* and its edge sequence.  HTTP method strings are sequences of one        *)
(* character strings, so that the parse of a method is computed.           *)
(***************************************************************************)
EXTENDS Integers, Sequences, FiniteSets, TLC

VARIABLES op, arg, pc, ret

vars == <<op, arg, pc, ret>>

(***************************************************************************)
(* Option / Result values                                                  *)
(***************************************************************************)
None == [tag |-> "None"]

Some(v) == [tag |-> "Some", val |-> v]

Ok(v) == [tag |-> "Ok", val |-> v]

Err(e) == [tag |-> "Err", err |-> e]

Panic == [tag |-> "Panic"]

IsOk(r) == r.tag = "Ok"

IsSome(r) == r.tag = "Some"

\* Iterator::flat_map over a sequence of Results: the Ok values, in order.
RECURSIVE flat_map(_)
flat_map(rs) ==
    IF rs = <<>> THEN <<>>
    ELSE IF IsOk(Head(rs)) THEN <<Head(rs).val>> \o flat_map(Tail(rs))
    ELSE flat_map(Tail(rs))

(***************************************************************************)
(* Record Accessor (ressa::extract, ressa::extract_vec)                    *)
(***************************************************************************)
extract(rec, key) ==
    IF key \in DOMAIN rec THEN Ok(rec[key]) ELSE Err(key)

\* Mutant of extract_vec: a missing sequence reads as the empty sequence.
extract_vec_or_empty(rec, key) ==
    IF key \in DOMAIN rec THEN Ok(rec[key]) ELSE Ok(<<>>)

extract_vec(rec, key) ==
    IF key \in DOMAIN rec THEN Ok(rec[key]) ELSE Err(key)

(***************************************************************************)
(* http::Method::from_str, as used by MicroserviceCall::try_from           *)
(***************************************************************************)
GET == <<"G", "E", "T">>

POST == <<"P", "O", "S", "T">>

PUT == <<"P", "U", "T">>

DELETE == <<"D", "E", "L", "E", "T", "E">>

HEAD == <<"H", "E", "A", "D">>

PATCH == <<"P", "A", "T", "C", "H">>

StandardMethods == {GET, POST, PUT, DELETE, HEAD, PATCH}

\* The bytes a method token may hold (letters of the alphabet used here).
MethodChars ==
    {"A", "B", "C", "D", "E", "F", "G", "H", "L", "O", "P", "R", "S", "T", "U"}

Method_from_str(s) ==
    IF Len(s) = 0 THEN Err("InvalidMethod")
    ELSE IF s \in StandardMethods THEN Ok([kind |-> "Standard", verb |-> s])
    ELSE IF \A k \in 1..Len(s) : s[k] \in MethodChars
         THEN Ok([kind |-> "Extension", verb |-> s])
    ELSE Err("InvalidMethod")

(***************************************************************************)
(* MicroserviceCall                                                        *)
(***************************************************************************)
Http(m) == [call |-> "Http", method |-> m]

Rpc == [call |-> "Rpc"]

MicroserviceCall_try_from(call) ==
    LET method == extract(call, "method") IN
    IF IsOk(method)
    THEN LET m == Method_from_str(method.val) IN
         IF IsOk(m) THEN Ok(Http(m.val)) ELSE Err("Bad HTTP method")
    ELSE Ok(Rpc)

(***************************************************************************)
(* Field, DatabaseType, Entity                                             *)
(***************************************************************************)
\* Mutant of Field_try_from: a field record without `type` is kept.
Field_try_from_untyped(entity) ==
    LET name == extract(entity, "name")
        ty   == extract(entity, "type")
    IN  IF ~IsOk(name) THEN name
        ELSE Ok([name |-> name.val, ty |-> IF IsOk(ty) THEN ty.val ELSE ""])

Field_try_from(entity) ==
    LET name == extract(entity, "name")
        ty   == extract(entity, "type")
    IN  IF ~IsOk(name) THEN name
        ELSE IF ~IsOk(ty) THEN ty
        ELSE Ok([name |-> name.val, ty |-> ty.val])

DatabaseType_from(value) ==
    IF value = "MySQL" THEN [db |-> "MySQL"]
    ELSE IF value = "MongoDB" THEN [db |-> "MongoDB"]
    ELSE [db |-> "Unknown", text |-> value]

\* Mutant of Entity_try_from: only `name` is required.
Entity_try_from_name_only(entity) ==
    LET name   == extract(entity, "name")
        ty     == extract(entity, "type")
        fields == extract_vec(entity, "fields")
    IN  IF ~IsOk(name) THEN name
        ELSE Ok([name   |-> name.val,
                 fields |-> IF IsOk(fields)
                            THEN flat_map([k \in 1..Len(fields.val) |->
                                              Field_try_from(fields.val[k])])
                            ELSE <<>>,
                 ty     |-> DatabaseType_from(IF IsOk(ty) THEN ty.val ELSE "")])

Entity_try_from(entity) ==
    LET name   == extract(entity, "name")
        ty     == extract(entity, "type")
        fields == extract_vec(entity, "fields")
    IN  IF ~IsOk(name) THEN name
        ELSE IF ~IsOk(ty) THEN ty
        ELSE IF ~IsOk(fields) THEN fields
        ELSE Ok([name   |-> name.val,
                 fields |-> flat_map([k \in 1..Len(fields.val) |->
                                         Field_try_from(fields.val[k])]),
                 ty     |-> DatabaseType_from(ty.val)])

\* impl From<&[Entity]> for EntityGraph: the body is todo!().
EntityGraph_from(entities) == Panic

(***************************************************************************)
(* MicroserviceGraph                                                       *)
(***************************************************************************)
Language_from(s) == [language |-> s]

\* Mutant of build_node: a record without `entities` is built into a node
\* that references no entity.
build_node_without_entities(service, entities) ==
    LET name == extract(service, "name")
        lang == extract(service, "language")
        refs == extract_vec(service, "entities")
    IN  IF ~IsOk(name) THEN name
        ELSE IF ~IsOk(lang) THEN lang
        ELSE LET listed == IF IsOk(refs) THEN refs.val ELSE <<>>
                 parsed == flat_map([k \in 1..Len(listed) |->
                                        Entity_try_from(listed[k])])
                 entity_names == {parsed[k].name : k \in 1..Len(parsed)}
                 Referenced(k) == entities[k].name \in entity_names
             IN  Ok([name         |-> name.val,
                     language     |-> Language_from(lang.val),
                     ref_entities |-> SelectSeq([k \in 1..Len(entities) |-> k],
                                                Referenced)])

\* The closure of add_nodes: one service record to a Microservice, or an
\* error.  ref_entities holds the positions of the referenced nodes of the
\* Entity Graph, in the graph's node order.
build_node(service, entities) ==
    LET name == extract(service, "name")
        lang == extract(service, "language")
        refs == extract_vec(service, "entities")
    IN  IF ~IsOk(name) THEN name
        ELSE IF ~IsOk(lang) THEN lang
        ELSE IF ~IsOk(refs) THEN refs
        ELSE LET parsed == flat_map([k \in 1..Len(refs.val) |->
                                        Entity_try_from(refs.val[k])])
                 entity_names == {parsed[k].name : k \in 1..Len(parsed)}
                 Referenced(k) == entities[k].name \in entity_names
             IN  Ok([name         |-> name.val,
                     language     |-> Language_from(lang.val),
                     ref_entities |-> SelectSeq([k \in 1..Len(entities) |-> k],
                                                Referenced)])

add_nodes(services, entities) ==
    flat_map([k \in 1..Len(services) |-> build_node(services[k], entities)])

\* Mutant of find: the last node of the name, not the first.
find_last(nodes, name) ==
    LET hits == {k \in 1..Len(nodes) : nodes[k].name = name} IN
    IF hits = {} THEN None
    ELSE Some(CHOOSE k \in hits : \A h \in hits : k >= h)

\* indices.iter().find(|ndx| graph[**ndx].name == name)
find(nodes, name) ==
    LET hits == {k \in 1..Len(nodes) : nodes[k].name = name} IN
    IF hits = {} THEN None
    ELSE Some(CHOOSE k \in hits : \A h \in hits : k <= h)

\* The closure of the flat_map over the service records in try_new.
service_calls(service) ==
    LET name  == extract(service, "name")
        calls == extract_vec(service, "calls")
    IN  IF ~IsOk(name) THEN name
        ELSE IF ~IsOk(calls) THEN calls
        ELSE Ok([name |-> name.val, calls |-> calls.val])

\* Mutant of add_calls: a call whose callee is no node is skipped.
RECURSIVE add_calls_skip_unresolved(_, _, _, _)
add_calls_skip_unresolved(nodes, service_ndx, calls, edges) ==
    IF calls = <<>> THEN Some(edges)
    ELSE LET call        == Head(calls)
             called_name == extract(call, "name")
         IN  IF ~IsOk(called_name) THEN None
             ELSE LET called_service_ndx == find(nodes, called_name.val) IN
                  IF ~IsSome(called_service_ndx)
                  THEN add_calls_skip_unresolved(nodes, service_ndx, Tail(calls), edges)
                  ELSE LET kind == MicroserviceCall_try_from(call) IN
                       IF ~IsOk(kind) THEN None
                       ELSE add_calls_skip_unresolved(nodes, service_ndx, Tail(calls),
                                Append(edges,
                                       [src  |-> service_ndx,
                                        dst  |-> called_service_ndx.val,
                                        call |-> kind.val]))

\* The inner loop of try_new over the calls of one service.
RECURSIVE add_calls(_, _, _, _)
add_calls(nodes, service_ndx, calls, edges) ==
    IF calls = <<>> THEN Some(edges)
    ELSE LET call        == Head(calls)
             called_name == extract(call, "name")
         IN  IF ~IsOk(called_name) THEN None
             ELSE LET called_service_ndx == find(nodes, called_name.val) IN
                  IF ~IsSome(called_service_ndx) THEN None
                  ELSE LET kind == MicroserviceCall_try_from(call) IN
                       IF ~IsOk(kind) THEN None
                       ELSE add_calls(nodes, service_ndx, Tail(calls),
                                Append(edges,
                                       [src  |-> service_ndx,
                                        dst  |-> called_service_ndx.val,
                                        call |-> kind.val]))

\* The outer loop of try_new over the (name, calls) pairs.
RECURSIVE add_edges(_, _, _)
add_edges(nodes, pairs, edges) ==
    IF pairs = <<>> THEN Some(edges)
    ELSE LET service_ndx == find(nodes, Head(pairs).name) IN
         IF ~IsSome(service_ndx) THEN None
         ELSE LET after == add_calls(nodes, service_ndx.val,
                                     Head(pairs).calls, edges)
              IN  IF ~IsSome(after) THEN None
                  ELSE add_edges(nodes, Tail(pairs), after.val)

try_new(result, entities) ==
    IF "ctx" \notin DOMAIN result THEN None
    ELSE LET services == extract_vec(result["ctx"], "services") IN
         IF ~IsOk(services) THEN None
         ELSE LET nodes == add_nodes(services.val, entities)
                  pairs == flat_map([k \in 1..Len(services.val) |->
                                        service_calls(services.val[k])])
                  edges == add_edges(nodes, pairs, <<>>)
              IN  IF ~IsSome(edges) THEN None
                  ELSE Some([nodes |-> nodes, edges |-> edges.val])

(***************************************************************************)
(* Bounds of the inputs                                                    *)
(***************************************************************************)
\* Most service records of a service list.
MaxServices == 2

\* Most call records of a service list, all services together.
MaxCalls == 2

\* Most entity-reference records of a service record.
MaxRefs == 2

\* Most nodes of an Entity Graph, and most Entities of a list.
MaxEntities == 2

\* Most field records of an entity record.
MaxFields == 2

(***************************************************************************)
(* Inputs                                                                  *)
(***************************************************************************)
EmptyRec == [k \in {} |-> k]

\* A key that is absent, or present with one of the values V.
Opt(key, V) == {EmptyRec} \cup {key :> v : v \in V}

SeqsUpTo(S, n) == UNION {[1..k -> S] : k \in 0..n}

ServiceNames == {"A", "B"}

FOOBAR == <<"F", "O", "O", "B", "A", "R">>

NoToken == <<"G", "E", "T", " ">>

EmptyString == <<>>

CallRecords ==
    {n @@ m : n \in Opt("name", ServiceNames),
              m \in Opt("method", {POST, FOOBAR, EmptyString})}

FieldRecords ==
    {n @@ t : n \in Opt("name", {"id", "email"}), t \in Opt("type", {"int"})}

EntityRecords ==
    {n @@ t @@ f : n \in Opt("name", {"User"}),
                   t \in Opt("type", {"MySQL", "Oracle"}),
                   f \in Opt("fields", SeqsUpTo(FieldRecords, MaxFields))}

\* The records a service lists under `entities`.
RefRecords ==
    {n @@ t @@ f : n \in Opt("name", {"User", "Ghost"}),
                   t \in Opt("type", {"MySQL"}),
                   f \in Opt("fields", {<<>>})}

\* The nodes an Entity Graph is built of.
Entities ==
    {[name |-> n, fields |-> <<>>, ty |-> DatabaseType_from("MySQL")] :
        n \in {"User", "Order"}}

EntityGraphs == SeqsUpTo(Entities, MaxEntities)

ResultOf(services) == "ctx" :> ("services" :> services)

\* Service lists that vary the fields a node is built from.
NodeRecords ==
    {n @@ l @@ e @@ c : n \in Opt("name", ServiceNames),
                        l \in Opt("language", {"go"}),
                        e \in Opt("entities", {<<>>}),
                        c \in Opt("calls", {<<>>, <<"name" :> "A">>})}

\* Service lists that vary the calls: every record has a name, and one kind
\* of record has no `language` and so is built into no node; counts[k] is
\* the number of call records of record k, or -1 when the record has no
\* `calls`; flat holds the call records of all of them.
CallerRecords ==
    {[name |-> n, language |-> "go", entities |-> <<>>] : n \in ServiceNames}
    \cup {[name |-> "A", entities |-> <<>>]}

RECURSIVE TotalCalls(_)
TotalCalls(counts) ==
    IF counts = <<>> THEN 0
    ELSE (IF Head(counts) < 0 THEN 0 ELSE Head(counts)) + TotalCalls(Tail(counts))

CallerList(heads, counts, flat) ==
    [k \in 1..Len(heads) |->
        IF counts[k] < 0 THEN heads[k]
        ELSE heads[k] @@
             ("calls" :> SubSeq(flat,
                                TotalCalls(SubSeq(counts, 1, k - 1)) + 1,
                                TotalCalls(SubSeq(counts, 1, k))))]

\* One service with entity references, against every Entity Graph.
RefServices ==
    {<<[name |-> "A", language |-> "go", entities |-> refs]>> :
        refs \in SeqsUpTo(RefRecords, MaxRefs)}

(***************************************************************************)
(* The state machine: one call of one operation on one input               *)
(***************************************************************************)
\* try_new on a result that has no ctx, or whose ctx has no service list.
InitNoServices ==
    /\ op = "try_new"
    /\ \E r \in {EmptyRec, "ctx" :> EmptyRec}, g \in EntityGraphs :
          arg = [result |-> r, entities |-> g]

InitNodes ==
    /\ op = "try_new"
    /\ \E k \in 0..MaxServices : \E s \in [1..k -> NodeRecords] :
          arg = [result |-> ResultOf(s), entities |-> <<>>]

InitCalls ==
    /\ op = "try_new"
    /\ \E k \in 0..MaxServices :
          \E heads \in [1..k -> CallerRecords], counts \in [1..k -> -1..MaxCalls] :
             /\ TotalCalls(counts) <= MaxCalls
             /\ \E flat \in [1..TotalCalls(counts) -> CallRecords] :
                   arg = [result   |-> ResultOf(CallerList(heads, counts, flat)),
                          entities |-> <<>>]

InitRefs ==
    /\ op = "try_new"
    /\ \E s \in RefServices, g \in EntityGraphs :
          arg = [result |-> ResultOf(s), entities |-> g]

InitEntity == op = "Entity_try_from" /\ arg \in EntityRecords

InitEntityGraph ==
    op = "EntityGraph_from" /\ arg \in SeqsUpTo(Entities, MaxEntities)

InitCall ==
    /\ op = "MicroserviceCall_try_from"
    /\ arg \in CallRecords \cup {"method" :> NoToken, "method" :> GET}

Init ==
    /\ pc = "call"
    /\ ret = None
    /\ \/ InitNoServices
       \/ InitNodes
       \/ InitCalls
       \/ InitRefs
       \/ InitEntity
       \/ InitEntityGraph
       \/ InitCall

TryNew ==
    /\ pc = "call" /\ op = "try_new"
    /\ ret' = try_new(arg.result, arg.entities)
    /\ pc' = "done"
    /\ UNCHANGED <<op, arg>>

EntityTryFrom ==
    /\ pc = "call" /\ op = "Entity_try_from"
    /\ ret' = Entity_try_from(arg)
    /\ pc' = "done"
    /\ UNCHANGED <<op, arg>>

EntityGraphFrom ==
    /\ pc = "call" /\ op = "EntityGraph_from"
    /\ ret' = EntityGraph_from(arg)
    /\ pc' = "done"
    /\ UNCHANGED <<op, arg>>

MicroserviceCallTryFrom ==
    /\ pc = "call" /\ op = "MicroserviceCall_try_from"
    /\ ret' = MicroserviceCall_try_from(arg)
    /\ pc' = "done"
    /\ UNCHANGED <<op, arg>>

Next == TryNew \/ EntityTryFrom \/ EntityGraphFrom \/ MicroserviceCallTryFrom

Spec == Init /\ [][Next]_vars

(***************************************************************************)
(* What the claims speak of                                                *)
(***************************************************************************)
Done(o) == pc = "done" /\ op = o

HasServices ==
    /\ op = "try_new"
    /\ "ctx" \in DOMAIN arg.result
    /\ "services" \in DOMAIN arg.result["ctx"]

ServiceList == arg.result["ctx"]["services"]

Has(rec, keys) == keys \subseteq DOMAIN rec

\* The positions of the service records that hold all of `keys`.
RecordsWith(keys) == {k \in 1..Len(ServiceList) : Has(ServiceList[k], keys)}

\* The service records that hold all of `keys`, in list order.
ListOfRecordsWith(keys) ==
    LET Holds(r) == Has(r, keys) IN SelectSeq(ServiceList, Holds)

Returned == Done("try_new") /\ ret.tag = "Some"

NodeNames(g) == {g.nodes[k].name : k \in 1..Len(g.nodes)}

RECURSIVE SumLen(_)
SumLen(lists) ==
    IF lists = <<>> THEN 0 ELSE Len(Head(lists)) + SumLen(Tail(lists))

\* The nodes add_nodes builds from the service list.
BuiltNodes == add_nodes(ServiceList, arg.entities)

BuiltNames == {BuiltNodes[k].name : k \in 1..Len(BuiltNodes)}

\* Record k declares a call whose callee name is the name of no built node.
UnresolvedCallee(k) ==
    /\ Has(ServiceList[k], {"calls"})
    /\ \E j \in 1..Len(ServiceList[k]["calls"]) :
          /\ Has(ServiceList[k]["calls"][j], {"name"})
          /\ ServiceList[k]["calls"][j]["name"] \notin BuiltNames

(***************************************************************************)
(* C1                                                                      *)
(***************************************************************************)
\* C1 as stated: try_new returns None whenever any call record of any
\* service record names a callee that is the name of no built node.
C1_AnyUnresolvedCalleeIsNone ==
    (Done("try_new") /\ HasServices /\ \E k \in 1..Len(ServiceList) : UnresolvedCallee(k))
        => ret = None

\* C1 amended: try_new returns None whenever a call record of a service
\* record whose `name` is extractable names a callee that is the name of no
\* built node (the calls of a record without a name are never read).
C1_UnresolvedCalleeOfNamedIsNone ==
    (Done("try_new") /\ HasServices /\ \E k \in RecordsWith({"name"}) : UnresolvedCallee(k))
        => ret = None

\* C1 witness: the single service A calls B, there is no service B, and no
\* graph is returned.
C1_Witness ==
    /\ Done("try_new") /\ HasServices
    /\ ServiceList = <<[name |-> "A", language |-> "go", entities |-> <<>>,
                        calls |-> <<[name |-> "B", method |-> POST]>>]>>
    /\ ret = None

(***************************************************************************)
(* C2                                                                      *)
(***************************************************************************)
\* C2 as stated: when a service record lacks `name` or `language`, try_new
\* returns what it returns for the list of the remaining records: the
\* dropped record leaves no node and never fails the build.
C2_DroppedRecordIsSilent ==
    (Done("try_new") /\ HasServices
        /\ RecordsWith({"name", "language"}) # 1..Len(ServiceList))
        => ret = try_new(ResultOf(ListOfRecordsWith({"name", "language"})),
                         arg.entities)

(***************************************************************************)
(* C3                                                                      *)
(***************************************************************************)
\* C3 as stated: a returned graph has as many nodes as there are service
\* records holding both `name` and `language`.
C3_NodeCountIsNameAndLanguage ==
    Returned => Len(ret.val.nodes) = Cardinality(RecordsWith({"name", "language"}))

\* C3 amended: a returned graph has as many nodes as there are service
\* records holding `name`, `language` and an `entities` sequence; a record
\* without `entities` yields no node.
C3_NodeCountIsNameLanguageEntities ==
    Returned =>
        Len(ret.val.nodes) = Cardinality(RecordsWith({"name", "language", "entities"}))

\* C3 witness: a graph is returned for a list of two records with `name` and
\* `language`, of which one has no `entities`, and it has one node.
C3_Witness ==
    /\ Returned
    /\ Cardinality(RecordsWith({"name", "language"})) = 2
    /\ Cardinality(RecordsWith({"name", "language", "entities"})) = 1
    /\ Len(ret.val.nodes) = 1

(***************************************************************************)
(* C4                                                                      *)
(***************************************************************************)
\* The service records a node is built from, in list order: node k of a
\* returned graph is built from record k of this list.
BuiltRecords == ListOfRecordsWith({"name", "language", "entities"})

\* The positions of the Entity Graph nodes whose name is the `name` of one
\* of the reference records `refs` that hold all of `keys`.
NamedBy(refs, keys) ==
    {e \in 1..Len(arg.entities) :
        \E j \in 1..Len(refs) :
            Has(refs[j], keys) /\ refs[j]["name"] = arg.entities[e].name}

IsSortedNoDup(seq) == \A a, b \in 1..Len(seq) : a < b => seq[a] < seq[b]

RefEntitiesAre(keys) ==
    /\ Len(ret.val.nodes) = Len(BuiltRecords)
    /\ \A k \in 1..Len(BuiltRecords) :
          LET refs == ret.val.nodes[k].ref_entities IN
          /\ {refs[j] : j \in 1..Len(refs)} = NamedBy(BuiltRecords[k]["entities"], keys)
          /\ IsSortedNoDup(refs)

\* C4 as stated: ref_entities of a built Microservice are exactly the Entity
\* Graph nodes whose name is the `name` of one of its reference records,
\* a reference record exposing only a `name`.
C4_RefEntitiesByName == Returned => RefEntitiesAre({"name"})

\* C4 amended: ref_entities are exactly the Entity Graph nodes whose name is
\* the `name` of one of the reference records that parse as an Entity, that
\* is, hold `name`, `type` and a `fields` sequence; the other reference
\* records, and the names no Entity node has, are dropped.
C4_RefEntitiesByParsedEntity ==
    Returned => RefEntitiesAre({"name", "type", "fields"})

\* C4 witness: the service declares complete records User and Ghost, the
\* Entity Graph holds User only, and the one referenced entity is User.
C4_Witness ==
    /\ Returned
    /\ Len(arg.entities) = 1 /\ arg.entities[1].name = "User"
    /\ Len(ServiceList) = 1
    /\ ServiceList[1]["entities"] =
          <<[name |-> "User", type |-> "MySQL", fields |-> <<>>],
            [name |-> "Ghost", type |-> "MySQL", fields |-> <<>>]>>
    /\ ret.val.nodes[1].ref_entities = <<1>>

(***************************************************************************)
(* C5                                                                      *)
(***************************************************************************)
Recognized(m) == m \in StandardMethods

\* The call records try_new reads in a build that reads all of them: those
\* of the records that hold `name` and `calls`.
CallsRead ==
    UNION {{ServiceList[k]["calls"][j] : j \in 1..Len(ServiceList[k]["calls"])} :
              k \in RecordsWith({"name", "calls"})}

\* C5 as stated: a recognized verb gives Http(verb), no `method` gives Rpc,
\* an unrecognized verb string fails the classification, and a build that
\* reads a call record with an unrecognized verb returns no graph.
C5_UnrecognizedVerbFails ==
    /\ Done("MicroserviceCall_try_from") =>
          IF ~Has(arg, {"method"}) THEN ret = Ok(Rpc)
          ELSE IF Recognized(arg["method"])
               THEN ret = Ok(Http([kind |-> "Standard", verb |-> arg["method"]]))
          ELSE ret.tag = "Err"
    /\ (Done("try_new") /\ HasServices
          /\ \E c \in CallsRead : Has(c, {"method"}) /\ ~Recognized(c["method"]))
          => ret = None

(***************************************************************************)
(* C6                                                                      *)
(***************************************************************************)
\* The declared call sequences of the built services (none for a record
\* without `calls`).
DeclaredCalls ==
    [k \in 1..Len(BuiltRecords) |->
        IF Has(BuiltRecords[k], {"calls"}) THEN BuiltRecords[k]["calls"] ELSE <<>>]

\* C6 as stated: a returned graph has one edge for every call record of
\* every built service, and no other edge.
C6_EdgeCountIsDeclaredCalls ==
    Returned => Len(ret.val.edges) = SumLen(DeclaredCalls)

(***************************************************************************)
(* C7                                                                      *)
(***************************************************************************)
\* C7: when the extraction result has no `ctx`, or the context has no
\* `services` sequence, try_new returns None, whatever the Entity Graph.
C7_NoServiceListIsNone == (Done("try_new") /\ ~HasServices) => ret = None

\* C7 witness: try_new has returned None for a context without `services`
\* and an Entity Graph that has nodes.
C7_Witness ==
    /\ Done("try_new")
    /\ "ctx" \in DOMAIN arg.result /\ "services" \notin DOMAIN arg.result["ctx"]
    /\ arg.entities # <<>>
    /\ ret = None

(***************************************************************************)
(* C8                                                                      *)
(***************************************************************************)
\* The field records that hold `name` and `type`, in their order, as Fields.
KeptFields(records) ==
    LET WellFormed(f) == Has(f, {"name", "type"})
        kept == SelectSeq(records, WellFormed)
    IN  [k \in 1..Len(kept) |-> [name |-> kept[k]["name"], ty |-> kept[k]["type"]]]

EntityIsBuilt ==
    /\ ret.tag = "Ok"
    /\ ret.val.name = arg["name"]
    /\ ret.val.ty = DatabaseType_from(arg["type"])
    /\ ret.val.fields = KeptFields(arg["fields"])

\* C8 as stated: Entity construction fails only when `name` or `type` is
\* missing, and the built Entity keeps the well-formed field records.
C8_FailsOnlyWithoutNameOrType ==
    Done("Entity_try_from") =>
        IF Has(arg, {"name", "type"}) THEN EntityIsBuilt ELSE ret.tag = "Err"

\* C8 amended: Entity construction fails only when `name`, `type` or the
\* `fields` sequence is missing; otherwise the Entity is built with its name
\* and database type, and its fields are the field records that hold `name`
\* and `type`, in their order (none when every field record is malformed).
C8_FailsOnlyWithoutNameTypeOrFields ==
    Done("Entity_try_from") =>
        IF Has(arg, {"name", "type", "fields"}) THEN EntityIsBuilt ELSE ret.tag = "Err"

\* C8 witness: every field record of the entity record is malformed and the
\* Entity is built with an empty field list.
C8_Witness ==
    /\ Done("Entity_try_from")
    /\ Has(arg, {"name", "type", "fields"})
    /\ Len(arg["fields"]) = MaxFields
    /\ \A k \in 1..Len(arg["fields"]) : ~Has(arg["fields"][k], {"name", "type"})
    /\ ret.tag = "Ok" /\ ret.val.fields = <<>> /\ ret.val.name = "User"

(***************************************************************************)
(* C9                                                                      *)
(***************************************************************************)
\* C9 as stated: building an EntityGraph from a list of Entities completes
\* and yields a graph with one node per Entity of the list.
C9_OneNodePerEntity ==
    Done("EntityGraph_from") => (ret # Panic /\ Len(ret.nodes) = Len(arg))

(***************************************************************************)
(* C10                                                                     *)
(***************************************************************************)
\* The <<caller name, callee name>> pairs of the calls of `records`, in order.
RECURSIVE NamePairs(_)
NamePairs(records) ==
    IF records = <<>> THEN <<>>
    ELSE [j \in 1..Len(Head(records)["calls"]) |->
             <<Head(records)["name"], Head(records)["calls"][j]["name"]>>]
         \o NamePairs(Tail(records))

\* Node k is the first node of the graph g that bears its name.
IsFirstOfName(g, k) == \A h \in 1..(k - 1) : g.nodes[h].name # g.nodes[k].name

\* C10: in a returned graph both ends of every edge are the first node, in
\* service-list order, that bears the name, so a later node of the same name
\* has no incident edge; and the edges are, in order, the calls of the
\* records that hold `name` and `calls`, by caller and callee name.
C10_EdgesAtFirstOfName ==
    Returned =>
        /\ \A e \in 1..Len(ret.val.edges) :
              /\ IsFirstOfName(ret.val, ret.val.edges[e].src)
              /\ IsFirstOfName(ret.val, ret.val.edges[e].dst)
        /\ [e \in 1..Len(ret.val.edges) |->
               <<ret.val.nodes[ret.val.edges[e].src].name,
                 ret.val.nodes[ret.val.edges[e].dst].name>>]
              = NamePairs(ListOfRecordsWith({"name", "calls"}))

\* C10 witness: two nodes are named A, the record of the second declares
\* calls, and every edge of the returned graph starts at the first.
C10_Witness ==
    /\ Returned
    /\ Len(ret.val.nodes) = 2
    /\ ret.val.nodes[1].name = "A" /\ ret.val.nodes[2].name = "A"
    /\ Len(ServiceList) = 2
    /\ Has(ServiceList[2], {"calls"}) /\ Len(ServiceList[2]["calls"]) = MaxCalls
    /\ Len(ret.val.edges) = MaxCalls
    /\ \A e \in 1..Len(ret.val.edges) :
          ret.val.edges[e].src = 1 /\ ret.val.edges[e].dst = 1

=============================================================================
